---- MODULE Spec2Model ----
(***************************************************************************)
(* Rate limiters and small APIs of the Express study repository.           *)
(*                                                                         *)
(*   rateLimit(limit, windowMs)   fixed-window counter  (rateLimiter.js)   *)
(*   rateLimiter                  sliding-window timestamp list, with the  *)
(*                                setInterval cleanup (02-Express-Hard.md) *)
(*   requestCounts limiter        plain counter (01-Middleware.md)         *)
(*   CRUD API, usersController, fakeDb controllers, auth controllers       *)
(*                                                                         *)
(* The variable app says which program runs; each behaviour is a run of    *)
(* one of them.                                                            *)
(*                                                                         *)
(* A middleware invocation contains no await and Node.js runs a callback   *)
(* to completion, so one invocation is one atomic action; concurrent       *)
(* requests are the interleavings of whole invocations.  Date.now() is     *)
(* the variable now, which only Tick advances, so requests handled without *)
(* a Tick in between read the same timestamp.                              *)
(***************************************************************************)
EXTENDS Integers, Sequences, FiniteSets

\* ---- bounds of the model ------------------------------------------------
MaxTime == 4
MaxLog == 4
MaxAppLog == 3
MaxNextId == 5
MaxUsers == 3
MaxItems == 8
\* the notes' threshold of 100 requests, scaled down
COUNT_LIMIT == 2
MaxLimit == 2
MaxWindowMs == 2
\* the sliding limiter's WINDOW_MS (60000), MAX_REQUESTS (10) and cleanup
\* period (5 * 60000), scaled down to values the checker can enumerate
WINDOW_MS == 2
MAX_REQUESTS == 2
SWEEP_MS == 3

Clients == {"A", "B"}
Apps == {"fixed", "sliding", "refactored", "logger", "crud", "controller",
         "fakedb", "bcrypt", "session", "counter"}
\* the programs that mount the sliding-window rateLimiter
SlidingApps == {"sliding", "refactored"}
\* the programs whose behaviour depends on Date.now()
ClockApps == {"fixed", "sliding", "refactored", "counter"}
Limits == 1..MaxLimit
Windows == 1..MaxWindowMs
ConfigLimits == (-1)..MaxLimit
ConfigWindows == (-1)..MaxWindowMs

VARIABLES
  app,           \* which of the repository's programs is running
  limit,         \* rateLimit's parameter limit
  windowMs,      \* rateLimit's parameter windowMs
  requests,      \* rateLimit's store  { ip: { count, startTime } }
  requestStore,  \* rateLimiter's store { ip: [timestamp, ...] }
  sweepDue,      \* time at which the setInterval callback is next due
  now,           \* Date.now()
  log,           \* history: every handled request and every sweep
  users,         \* the CRUD API's in-memory array  let users = [...]
  nextId,        \* the CRUD API's counter  let nextId = 3
  dataFile,      \* usersController.js: the content of data/data.json
  reply,         \* the last CRUD request and the status it was answered with
  fakeData,      \* utils/fakeDb.js: const fakeData = { users, products }
  authUsers,     \* the auth APIs' in-memory array  users  (userModel.js)
  inflight,      \* async handlers suspended at an await, by request
  sessions,      \* express-session's store: session id -> session data
  requestCounts, \* the notes' counter limiter  const requestCounts = {}
  lastAuth       \* history: per session, its most recent successful login or logout

userVars == <<users, nextId, dataFile, reply>>

extraVars == <<fakeData, authUsers, inflight, sessions, requestCounts, lastAuth>>

vars == <<app, limit, windowMs, requests, requestStore, sweepDue, now, log,
          users, nextId, dataFile, reply, extraVars>>

\* ---- helpers --------------------------------------------------------------
Put(store, key, val) ==
  [k \in (DOMAIN store) \cup {key} |-> IF k = key THEN val ELSE store[k]]

EmptyStore == [k \in {} |-> 0]

RECURSIVE FilterSeq(_, _, _)
\* Array.prototype.filter with the predicate  nowT - timestamp < w
FilterSeq(s, nowT, w) ==
  IF s = <<>> THEN <<>>
  ELSE IF nowT - Head(s) < w
       THEN <<Head(s)>> \o FilterSeq(Tail(s), nowT, w)
       ELSE FilterSeq(Tail(s), nowT, w)

\* the same filter with the predicate  nowT - timestamp <= w
RECURSIVE FilterSeqInclusive(_, _, _)
FilterSeqInclusive(s, nowT, w) ==
  IF s = <<>> THEN <<>>
  ELSE IF nowT - Head(s) <= w
       THEN <<Head(s)>> \o FilterSeqInclusive(Tail(s), nowT, w)
       ELSE FilterSeqInclusive(Tail(s), nowT, w)

\* ---- rateLimit (fixed window) --------------------------------------------
\* every request is filed under one shared key
KeyOfShared(ip) == "A"

\* const ip = req.ip
KeyOf(ip) == ip

\* the boundary instant still belongs to the expiring window
InWindowInclusive(elapsed, w) == elapsed <= w

\* elapsed < windowMs
InWindow(elapsed, w) == elapsed < w

\* one request too many passes
ExceedsOffByOne(count, lim) == count > lim + 1

\* the request that reaches the limit is blocked
ExceedsAtLimit(count, lim) == count >= lim

\* only the first request over the limit is blocked
ExceedsOnce(count, lim) == count = lim + 1

\* requests[ip].count > limit
Exceeds(count, lim) == count > lim

\* the reset forgets to move startTime
CountedStaleStart(store, ip, currentTime, w) ==
  IF ip \notin DOMAIN store
  THEN [count |-> 1, startTime |-> currentTime]
  ELSE LET elapsed == currentTime - store[ip].startTime IN
       IF InWindow(elapsed, w)
       THEN [count |-> store[ip].count + 1, startTime |-> store[ip].startTime]
       ELSE [count |-> 1, startTime |-> store[ip].startTime]

\* the reset starts the new window with a count of zero
CountedResetZero(store, ip, currentTime, w) ==
  IF ip \notin DOMAIN store
  THEN [count |-> 1, startTime |-> currentTime]
  ELSE LET elapsed == currentTime - store[ip].startTime IN
       IF InWindow(elapsed, w)
       THEN [count |-> store[ip].count + 1, startTime |-> store[ip].startTime]
       ELSE [count |-> 0, startTime |-> currentTime]

\* the record of ip after the if/else that creates, increments or resets it
Counted(store, ip, currentTime, w) ==
  IF ip \notin DOMAIN store
  THEN [count |-> 1, startTime |-> currentTime]
  ELSE LET elapsed == currentTime - store[ip].startTime IN
       IF InWindow(elapsed, w)
       THEN [count |-> store[ip].count + 1, startTime |-> store[ip].startTime]
       ELSE [count |-> 1, startTime |-> currentTime]

\* the store after one invocation of the middleware
FixedAfter(store, c, currentTime, w) ==
  Put(store, KeyOf(c), Counted(store, KeyOf(c), currentTime, w))

\* TRUE when the invocation calls next(), FALSE when it answers 429
FixedOk(store, c, currentTime, w, lim) ==
  ~Exceeds(FixedAfter(store, c, currentTime, w)[KeyOf(c)].count, lim)

\* the return before res.status(429) is missing: next() runs as well
FixedOutcomeNoReturn(store, c, currentTime, w, lim) ==
  IF FixedOk(store, c, currentTime, w, lim)
  THEN [sent |-> <<>>, nexts |-> 1]
  ELSE [sent |-> <<429>>, nexts |-> 1]

\* what the invocation does with the request: the responses it sends and
\* the number of times it calls next()
FixedOutcome(store, c, currentTime, w, lim) ==
  IF FixedOk(store, c, currentTime, w, lim)
  THEN [sent |-> <<>>, nexts |-> 1]
  ELSE [sent |-> <<429>>, nexts |-> 0]

\* the middleware returned by rateLimit(limit, windowMs)
rateLimit(l, w) == [limit |-> l, windowMs |-> w, requests |-> EmptyStore]

FixedRequest(c) ==
  /\ app = "fixed"
  /\ Len(log) < MaxLog
  /\ requests' = FixedAfter(requests, c, now, windowMs)
  /\ log' = Append(log, [op |-> "req", ip |-> c, t |-> now,
                         ok |-> FixedOk(requests, c, now, windowMs, limit),
                         hdr |-> {},
                         out |-> FixedOutcome(requests, c, now, windowMs, limit)])
  /\ UNCHANGED <<app, limit, windowMs, requestStore, sweepDue, now, userVars,
                 extraVars>>

\* ---- rateLimiter (sliding window) ----------------------------------------
\* the list is used as it is, without pruning
RecentKeepAll(s, nowT) == s

\* a timestamp that is exactly WINDOW_MS old still counts
RecentInclusive(s, nowT) == FilterSeqInclusive(s, nowT, WINDOW_MS)

\* requestStore[ip].filter(timestamp => now - timestamp < WINDOW_MS)
Recent(s, nowT) == FilterSeq(s, nowT, WINDOW_MS)

\* the list may grow one past the limit
LimitReachedStrict(len) == len > MAX_REQUESTS

\* requestStore[ip].length >= MAX_REQUESTS
LimitReached(len) == len >= MAX_REQUESTS

\* the pruned list the length check looks at
Pruned(store, c, nowT) ==
  Recent(IF KeyOf(c) \in DOMAIN store THEN store[KeyOf(c)] ELSE <<>>, nowT)

SlidingOk(store, c, nowT) == ~LimitReached(Len(Pruned(store, c, nowT)))

SlidingAfter(store, c, nowT) ==
  Put(store, KeyOf(c),
      IF SlidingOk(store, c, nowT)
      THEN Append(Pruned(store, c, nowT), nowT)
      ELSE Pruned(store, c, nowT))

\* X-RateLimit-Remaining is computed before the push
SlidingHeadersBeforePush(store, c, nowT) ==
  IF SlidingOk(store, c, nowT)
  THEN {<<"X-RateLimit-Limit", MAX_REQUESTS>>,
        <<"X-RateLimit-Remaining", MAX_REQUESTS - Len(Pruned(store, c, nowT))>>,
        <<"X-RateLimit-Reset", nowT + WINDOW_MS>>}
  ELSE {}

\* the headers the middleware has set when it returns: the three
\* X-RateLimit headers after the push, none on the 429 path (Reset is the
\* instant now + WINDOW_MS, which the code prints as an ISO string)
SlidingHeaders(store, c, nowT) ==
  IF SlidingOk(store, c, nowT)
  THEN {<<"X-RateLimit-Limit", MAX_REQUESTS>>,
        <<"X-RateLimit-Remaining",
          MAX_REQUESTS - Len(SlidingAfter(store, c, nowT)[KeyOf(c)])>>,
        <<"X-RateLimit-Reset", nowT + WINDOW_MS>>}
  ELSE {}

\* the responses the middleware sends and its calls of next()
SlidingOutcome(store, c, nowT) ==
  IF SlidingOk(store, c, nowT)
  THEN [sent |-> <<>>, nexts |-> 1]
  ELSE [sent |-> <<429>>, nexts |-> 0]

SlidingRequest(c) ==
  /\ app = "sliding"
  /\ Len(log) < MaxLog
  /\ requestStore' = SlidingAfter(requestStore, c, now)
  /\ log' = Append(log, [op |-> "req", ip |-> c, t |-> now,
                         ok |-> SlidingOk(requestStore, c, now),
                         hdr |-> SlidingHeaders(requestStore, c, now),
                         out |-> SlidingOutcome(requestStore, c, now)])
  /\ UNCHANGED <<app, limit, windowMs, requests, sweepDue, now, userVars,
                 extraVars>>

\* the cleanup keeps a timestamp that is exactly WINDOW_MS old
SweepKeepInclusive(s, nowT) == FilterSeqInclusive(s, nowT, WINDOW_MS)

\* the cleanup drops at most one expired timestamp, the oldest
SweepKeepShiftOnce(s, nowT) ==
  IF s # <<>> /\ nowT - Head(s) >= WINDOW_MS THEN Tail(s) ELSE s

\* the filter of the cleanup callback
SweepKeep(s, nowT) == FilterSeq(s, nowT, WINDOW_MS)

\* the cleanup prunes the lists but keeps the emptied entries
SweepAfterKeepEmpty(store, nowT) ==
  [ip \in DOMAIN store |-> SweepKeep(store[ip], nowT)]

\* the cleanup deletes every entry, recent or not
SweepAfterDropAll(store, nowT) == EmptyStore

\* the store after the cleanup callback: prune every list, delete the empty
SweepAfter(store, nowT) ==
  LET live == {ip \in DOMAIN store : SweepKeep(store[ip], nowT) # <<>>}
  IN [ip \in live |-> SweepKeep(store[ip], nowT)]

Sweep ==
  /\ app \in SlidingApps
  /\ now >= sweepDue
  /\ requestStore' = SweepAfter(requestStore, now)
  /\ sweepDue' = sweepDue + SWEEP_MS
  /\ log' = Append(log, [op |-> "sweep", ip |-> "-", t |-> now, ok |-> FALSE,
                         hdr |-> {}])
  /\ UNCHANGED <<app, limit, windowMs, requests, now, userVars,
                 extraVars>>

\* ---- the refactored app (app.js) -------------------------------------------
\* one client suffices to exhaust a budget
AppClients == {"A"}

AppPaths == {"/health", "/api/users"}

\* the outcomes of the simulated database: Math.random() < 0.1 fails
DbOutcomes(path) == IF path = "/api/users" THEN {TRUE, FALSE} ELSE {FALSE}

\* the status of a GET that rateLimiter passed on with next(): the /health
\* handler, getAllUsers (200, or 503 through errorHandler when the fake
\* database rejects), the 404 handler for any other URL
RouteStatus(path, dbFails) ==
  IF path = "/health" THEN 200
  ELSE IF path = "/api/users" THEN (IF dbFails THEN 503 ELSE 200)
  ELSE 404

\* app.use(rateLimiter) comes first, so every request passes it
AppStatus(store, c, nowT, path, dbFails) ==
  IF SlidingOk(store, c, nowT) THEN RouteStatus(path, dbFails) ELSE 429

\* one GET request to the refactored app.  getAllUsers answers after an
\* awaited timer, but it only reads fakeData, so its answer is fixed by the
\* limiter's decision and the database outcome.
AppRequest(c, path, dbFails) ==
  /\ app = "refactored"
  /\ Len(log) < MaxAppLog
  /\ requestStore' = SlidingAfter(requestStore, c, now)
  /\ log' = Append(log, [op |-> "req", ip |-> c, t |-> now,
                         ok |-> SlidingOk(requestStore, c, now),
                         hdr |-> SlidingHeaders(requestStore, c, now),
                         out |-> SlidingOutcome(requestStore, c, now),
                         path |-> path,
                         status |-> AppStatus(requestStore, c, now, path, dbFails)])
  /\ UNCHANGED <<app, limit, windowMs, requests, sweepDue, now, userVars,
                 extraVars>>

\* ---- the request-logging server (03-Log-Incoming-Req.js) -------------------
Methods == {"GET", "POST"}

LogPaths == {"/", "/about", "/cotact", "/nope"}

\* the middleware stack in the order of registration
Stack ==
  << [kind |-> "route", method |-> "GET", path |-> "/"],
     [kind |-> "use", method |-> "-", path |-> "-"],
     [kind |-> "route", method |-> "GET", path |-> "/about"],
     [kind |-> "route", method |-> "GET", path |-> "/cotact"] >>

Event(op, method, path, status) ==
  [op |-> op, ip |-> "-", t |-> now, ok |-> TRUE, hdr |-> {},
   method |-> method, path |-> path, status |-> status]

RECURSIVE Dispatch(_, _, _, _)
\* what Express does with a request from layer k of the stack on: a matching
\* route sends the response, the logger writes its line and calls next(),
\* and a request no layer answers gets the default 404
Dispatch(stack, k, method, path) ==
  IF k > Len(stack) THEN <<Event("send", method, path, 404)>>
  ELSE IF stack[k].kind = "use"
       THEN <<Event("log", method, path, 0)>> \o Dispatch(stack, k + 1, method, path)
       ELSE IF stack[k].method = method /\ stack[k].path = path
            THEN <<Event("send", method, path, 200)>>
            ELSE Dispatch(stack, k + 1, method, path)

LogRequest(method, path) ==
  /\ app = "logger"
  /\ Len(log) < MaxLog
  /\ log' = log \o Dispatch(Stack, 1, method, path)
  /\ UNCHANGED <<app, limit, windowMs, requests, requestStore, sweepDue, now,
                 userVars,
                 extraVars>>

\* ---- the in-memory CRUD API (notes) and usersController.js ------------------
InitialUsers ==
  << [id |-> 1, name |-> "John Doe", email |-> "john@example.com"],
     [id |-> 2, name |-> "Jane Smith", email |-> "jane@example.com"] >>

\* a body field that is missing (undefined) or empty: both are falsy
Absent == ""

BodyNames == {Absent, "Al"}

BodyEmails == {Absent, "john@example.com", "al@example.com"}

\* values of the route parameter :id
IdParams == {"1", "2", "3", "2abc", "abc"}

\* NaN, which is === to no id
NaN == -1

\* parseInt(req.params.id): the leading digits, NaN when there are none
ParseInt(param) ==
  CASE param = "1" -> 1
    [] param = "2" -> 2
    [] param = "3" -> 3
    [] param = "2abc" -> 2
    [] OTHER -> NaN

NoReply == [op |-> "-", param |-> "-", name |-> Absent, email |-> Absent, status |-> 0]

\* users.findIndex(u => u.id === id), counted from 1; 0 stands for -1
FindIndex(us, id) ==
  IF \E i \in 1..Len(us) : us[i].id = id
  THEN CHOOSE i \in 1..Len(us) : us[i].id = id /\ \A j \in 1..(i - 1) : us[j].id # id
  ELSE 0

\* users.splice(k, 1)
RemoveAt(us, k) == SubSeq(us, 1, k - 1) \o SubSeq(us, k + 1, Len(us))

\* the new id is the current number of users plus one
NewIdByLength(us, nid) == Len(us) + 1

\* id: nextId++
NewId(us, nid) == nid

\* app.post('/api/users')
PostStatus(us, name, email) ==
  IF name = Absent \/ email = Absent THEN 400
  ELSE IF \E i \in 1..Len(us) : us[i].email = email THEN 400
  ELSE 201

PostUsers(us, nid, name, email) ==
  IF PostStatus(us, name, email) = 201
  THEN Append(us, [id |-> NewId(us, nid), name |-> name, email |-> email])
  ELSE us

PostUser(name, email) ==
  /\ app = "crud"
  /\ nextId < MaxNextId
  /\ users' = PostUsers(users, nextId, name, email)
  /\ nextId' = IF PostStatus(users, name, email) = 201 THEN nextId + 1 ELSE nextId
  /\ reply' = [op |-> "POST", param |-> "-", name |-> name, email |-> email,
               status |-> PostStatus(users, name, email)]
  /\ UNCHANGED <<app, limit, windowMs, requests, requestStore, sweepDue, now, log,
                 dataFile,
                 extraVars>>

\* the user is replaced by an object built from the body alone
Overwritten(u, name, email) == [id |-> u.id, name |-> name, email |-> email]

\* if (name) user.name = name; if (email) user.email = email
Updated(u, name, email) ==
  [id |-> u.id,
   name |-> IF name # Absent THEN name ELSE u.name,
   email |-> IF email # Absent THEN email ELSE u.email]

\* app.put('/api/users/:id')
PutStatus(us, id, name, email) ==
  IF FindIndex(us, id) = 0 THEN 404
  ELSE IF email # Absent /\ \E i \in 1..Len(us) : us[i].email = email /\ us[i].id # id
  THEN 400
  ELSE 200

PutUsers(us, id, name, email) ==
  IF PutStatus(us, id, name, email) = 200
  THEN [us EXCEPT ![FindIndex(us, id)] = Updated(@, name, email)]
  ELSE us

PutUser(param, name, email) ==
  /\ app = "crud"
  /\ users' = PutUsers(users, ParseInt(param), name, email)
  /\ reply' = [op |-> "PUT", param |-> param, name |-> name, email |-> email,
               status |-> PutStatus(users, ParseInt(param), name, email)]
  /\ UNCHANGED <<app, limit, windowMs, requests, requestStore, sweepDue, now, log,
                 nextId, dataFile,
                 extraVars>>

\* app.delete('/api/users/:id')
DeleteStatus(us, id) == IF FindIndex(us, id) = 0 THEN 404 ELSE 200

DeleteUsers(us, id) ==
  IF FindIndex(us, id) = 0 THEN us ELSE RemoveAt(us, FindIndex(us, id))

DeleteUser(param) ==
  /\ app = "crud"
  /\ users' = DeleteUsers(users, ParseInt(param))
  /\ reply' = [op |-> "DELETE", param |-> param, name |-> Absent, email |-> Absent,
               status |-> DeleteStatus(users, ParseInt(param))]
  /\ UNCHANGED <<app, limit, windowMs, requests, requestStore, sweepDue, now, log,
                 nextId, dataFile,
                 extraVars>>

\* readUsers: JSON.parse of the file, one row <<id, name, email>> per object
ReadUsers(file) ==
  [i \in 1..Len(file) |-> [id |-> file[i][1], name |-> file[i][2], email |-> file[i][3]]]

\* writeUsers: JSON.stringify of the array
WriteUsers(us) ==
  [i \in 1..Len(us) |-> <<us[i].id, us[i].name, us[i].email>>]

\* createUser: the id follows the last user's id
CtlNewId(us) == IF Len(us) > 0 THEN us[Len(us)].id + 1 ELSE 1

CtlCreateStatus(name, email) == IF name = Absent \/ email = Absent THEN 400 ELSE 201

CtlCreate(name, email) ==
  /\ app = "controller"
  /\ Len(dataFile) < MaxUsers
  /\ dataFile' =
       IF CtlCreateStatus(name, email) = 201
       THEN WriteUsers(Append(ReadUsers(dataFile),
                              [id |-> CtlNewId(ReadUsers(dataFile)),
                               name |-> name, email |-> email]))
       ELSE dataFile
  /\ reply' = [op |-> "POST", param |-> "-", name |-> name, email |-> email,
               status |-> CtlCreateStatus(name, email)]
  /\ UNCHANGED <<app, limit, windowMs, requests, requestStore, sweepDue, now, log,
                 users, nextId,
                 extraVars>>

\* updateUser
CtlUpdateStatus(us, id) == IF FindIndex(us, id) = 0 THEN 404 ELSE 200

CtlUpdateUsers(us, id, name, email) ==
  IF FindIndex(us, id) = 0 THEN us
  ELSE [us EXCEPT ![FindIndex(us, id)] = Updated(@, name, email)]

CtlUpdate(param, name, email) ==
  /\ app = "controller"
  /\ dataFile' =
       IF CtlUpdateStatus(ReadUsers(dataFile), ParseInt(param)) = 200
       THEN WriteUsers(CtlUpdateUsers(ReadUsers(dataFile), ParseInt(param), name, email))
       ELSE dataFile
  /\ reply' = [op |-> "PUT", param |-> param, name |-> name, email |-> email,
               status |-> CtlUpdateStatus(ReadUsers(dataFile), ParseInt(param))]
  /\ UNCHANGED <<app, limit, windowMs, requests, requestStore, sweepDue, now, log,
                 users, nextId,
                 extraVars>>

\* deleteUser
CtlDelete(param) ==
  /\ app = "controller"
  /\ dataFile' =
       IF FindIndex(ReadUsers(dataFile), ParseInt(param)) = 0 THEN dataFile
       ELSE WriteUsers(RemoveAt(ReadUsers(dataFile),
                                FindIndex(ReadUsers(dataFile), ParseInt(param))))
  /\ reply' = [op |-> "DELETE", param |-> param, name |-> Absent, email |-> Absent,
               status |-> IF FindIndex(ReadUsers(dataFile), ParseInt(param)) = 0
                          THEN 404 ELSE 204]
  /\ UNCHANGED <<app, limit, windowMs, requests, requestStore, sweepDue, now, log,
                 users, nextId,
                 extraVars>>

\* ---- the refactored app's controllers over utils/fakeDb.js --------------------
\* (the routes behind rateLimiter; the limiter in front of them is the
\* program "refactored" above)
InitialFakeData ==
  [users |-> << [id |-> 1, name |-> "John Doe"],
                [id |-> 2, name |-> "Jane Smith"],
                [id |-> 3, name |-> "Bob Johnson"] >>,
   products |-> << [id |-> 1, name |-> "Laptop"],
                   [id |-> 2, name |-> "Phone"],
                   [id |-> 3, name |-> "Tablet"] >>]

\* the collections the routes are named after
Collections == {"users", "products"}

\* req.body of a create request; id 0 stands for a body without an id
CreateBodies == {[id |-> 0, name |-> "New"], [id |-> 1, name |-> "New"]}

\* Math.max(...fakeData.users.map(u => u.id))
MaxIdOf(us) == CHOOSE m \in {us[i].id : i \in 1..Len(us)} :
                 \A i \in 1..Len(us) : us[i].id <= m

\* { id: newId, ...param }: an id in the body replaces newId
NewItem(data, body) ==
  [id |-> IF body.id # 0 THEN body.id ELSE MaxIdOf(data.users) + 1,
   name |-> body.name]

\* case 'create': fakeData.users.push(newItem), whichever controller asks
FakeDbCreated(data, coll, body) ==
  [data EXCEPT !.users = Append(@, NewItem(data, body))]

\* createUser / createProduct: POST /api/users, POST /api/products.  The
\* push and the resolve happen in one timer callback, and the controller
\* answers 201 with the resolved item, or 503 through errorHandler when the
\* simulated database fails.
FakeDbCreate(coll, body, dbFails) ==
  /\ app = "fakedb"
  /\ Len(fakeData.users) + Len(fakeData.products) < MaxItems
  /\ fakeData' = IF dbFails THEN fakeData ELSE FakeDbCreated(fakeData, coll, body)
  /\ reply' = [op |-> "POST", coll |-> coll,
               status |-> IF dbFails THEN 503 ELSE 201,
               data |-> IF dbFails THEN <<>> ELSE <<NewItem(fakeData, body)>>]
  /\ UNCHANGED <<app, limit, windowMs, requests, requestStore, sweepDue, now, log,
                 users, nextId, dataFile,
                 authUsers, inflight, sessions, requestCounts, lastAuth>>

\* getAllUsers / getAllProducts: case 'users' and case 'products'
FakeDbList(coll, dbFails) ==
  /\ app = "fakedb"
  /\ reply' = [op |-> "GET", coll |-> coll,
               status |-> IF dbFails THEN 503 ELSE 200,
               data |-> IF dbFails THEN <<>> ELSE fakeData[coll]]
  /\ UNCHANGED <<app, limit, windowMs, requests, requestStore, sweepDue, now, log,
                 users, nextId, dataFile,
                 extraVars>>

\* ---- the auth APIs (03-Login-Register-bcrypt, 04-Session-Login) --------------
\* the programs that export registerUser
AuthApps == {"bcrypt", "session"}

\* req.body.username and req.body.password; Absent is a missing or empty one
AuthNames == {Absent, "ann"}

\* passwords chosen at registration, and passwords tried at login
NewPasswords == {Absent, "pw"}

AuthPasswords == {Absent, "pw", "bad"}

\* the cookies connect.sid of two browsers
SessionIds == {"s1", "s2"}

\* the requests that can be suspended at an await at the same time
ReqIds == {1, 2}

Idle == [op |-> "-", pc |-> "-", sid |-> "-", username |-> Absent,
         password |-> Absent, hash |-> <<>>]

NoneInFlight == [r \in ReqIds |-> Idle]

\* a new request takes the first free place
FreeSlot(r) == inflight[r] = Idle /\ \A q \in ReqIds : q < r => inflight[q] # Idle

\* bcrypt.hash(password, 10): a value that only the same password matches
Hash(password) == <<"bcrypt", password>>

\* bcrypt.compare(password, hash)
Compare(password, hash) == hash = Hash(password)

\* users.find(u => u.username === username): index of the first, 0 for none
FindUser(us, username) ==
  IF \E i \in 1..Len(us) : us[i].username = username
  THEN CHOOSE i \in 1..Len(us) :
         us[i].username = username /\ \A j \in 1..(i - 1) : us[j].username # username
  ELSE 0

\* the response a handler has just sent
Response(op, sid, status) ==
  [op |-> op, sid |-> sid, status |-> status]

\* the status registerUser answers before its first await, 0 when it goes on
RegisterEarly(us, username, password) ==
  IF username = Absent \/ password = Absent THEN 400
  ELSE IF FindUser(us, username) # 0 THEN 409
  ELSE 0

\* registerUser up to  await simulateDBDelay(800)
RegisterStart(r, username, password) ==
  /\ app \in AuthApps
  /\ FreeSlot(r)
  /\ IF RegisterEarly(authUsers, username, password) # 0
     THEN /\ reply' = Response("register", "-",
                               RegisterEarly(authUsers, username, password))
          /\ UNCHANGED inflight
     ELSE /\ inflight' = [inflight EXCEPT ![r] =
                            [op |-> "register", pc |-> "delay", sid |-> "-",
                             username |-> username, password |-> password,
                             hash |-> <<>>]]
          /\ UNCHANGED reply
  /\ UNCHANGED <<app, limit, windowMs, requests, requestStore, sweepDue, now, log,
                 users, nextId, dataFile,
                 fakeData, authUsers, sessions, requestCounts, lastAuth>>

\* simulateDBDelay resolves and the handler calls bcrypt.hash (registerUser)
\* or bcrypt.compare (loginUser), then awaits it
AwaitDelay(r) ==
  /\ app \in AuthApps
  /\ inflight[r].pc = "delay"
  /\ inflight' = [inflight EXCEPT ![r].pc = IF inflight[r].op = "register"
                                            THEN "hash" ELSE "compare"]
  /\ UNCHANGED <<app, limit, windowMs, requests, requestStore, sweepDue, now, log,
                 userVars, fakeData, authUsers, sessions, requestCounts, lastAuth>>

\* the handler looks for the username again before it stores the user
PushedIfNew(us, username, password) ==
  IF FindUser(us, username) # 0 THEN us
  ELSE Append(us, [username |-> username, password |-> Hash(password)])

\* users.push({ username, password: hashedPassword })
Pushed(us, username, password) ==
  Append(us, [username |-> username, password |-> Hash(password)])

\* bcrypt.hash resolves: push the user and answer 201
RegisterFinish(r) ==
  /\ app \in AuthApps
  /\ inflight[r].op = "register"
  /\ inflight[r].pc = "hash"
  /\ authUsers' = Pushed(authUsers, inflight[r].username, inflight[r].password)
  /\ reply' = Response("register", "-", 201)
  /\ inflight' = [inflight EXCEPT ![r] = Idle]
  /\ UNCHANGED <<app, limit, windowMs, requests, requestStore, sweepDue, now, log,
                 users, nextId, dataFile,
                 fakeData, sessions, requestCounts, lastAuth>>

\* the status loginUser answers before its first await, 0 when it goes on
LoginEarly(us, username, password) ==
  IF username = Absent \/ password = Absent THEN 400
  ELSE IF FindUser(us, username) = 0 THEN 404
  ELSE 0

\* loginUser up to  await simulateDBDelay(500); hash is the password of the
\* user it found
LoginStart(r, sid, username, password) ==
  /\ app = "session"
  /\ FreeSlot(r)
  /\ IF LoginEarly(authUsers, username, password) # 0
     THEN /\ reply' = Response("login", sid,
                               LoginEarly(authUsers, username, password))
          /\ UNCHANGED inflight
     ELSE /\ inflight' = [inflight EXCEPT ![r] =
                            [op |-> "login", pc |-> "delay", sid |-> sid,
                             username |-> username, password |-> password,
                             hash |-> authUsers[FindUser(authUsers, username)].password]]
          /\ UNCHANGED reply
  /\ UNCHANGED <<app, limit, windowMs, requests, requestStore, sweepDue, now, log,
                 users, nextId, dataFile,
                 fakeData, authUsers, sessions, requestCounts, lastAuth>>

\* the session is created whatever bcrypt.compare answered
LoginSessionAlways(store, sid, username, isMatch) ==
  Put(store, sid, [user |-> username])

\* req.session.user = { username } after the isMatch check; express-session
\* saves the modified session when the response ends
LoginSession(store, sid, username, isMatch) ==
  IF isMatch THEN Put(store, sid, [user |-> username]) ELSE store

\* the history after a response: a successful login or logout is remembered
Remember(hist, op, sid, status) ==
  IF status = 200 /\ op \in {"login", "logout"}
  THEN [hist EXCEPT ![sid] = op] ELSE hist

\* bcrypt.compare resolves: 401, or create the session and answer 200
LoginFinish(r) ==
  LET isMatch == Compare(inflight[r].password, inflight[r].hash)
      status == IF isMatch THEN 200 ELSE 401
  IN
  /\ app = "session"
  /\ inflight[r].op = "login"
  /\ inflight[r].pc = "compare"
  /\ sessions' = LoginSession(sessions, inflight[r].sid, inflight[r].username, isMatch)
  /\ reply' = Response("login", inflight[r].sid, status)
  /\ lastAuth' = Remember(lastAuth, "login", inflight[r].sid, status)
  /\ inflight' = [inflight EXCEPT ![r] = Idle]
  /\ UNCHANGED <<app, limit, windowMs, requests, requestStore, sweepDue, now, log,
                 users, nextId, dataFile,
                 fakeData, authUsers, requestCounts>>

\* req.session.user of a request with cookie sid (Absent when undefined)
SessionUser(store, sid) == IF sid \in DOMAIN store THEN store[sid].user ELSE Absent

\* getProfile answers every request with success
ProfileStatusOpen(store, sid) == 200

\* getProfile
ProfileStatus(store, sid) == IF SessionUser(store, sid) = Absent THEN 401 ELSE 200

GetProfile(sid) ==
  /\ app = "session"
  /\ reply' = Response("profile", sid,
                       ProfileStatus(sessions, sid))
  /\ UNCHANGED <<app, limit, windowMs, requests, requestStore, sweepDue, now, log,
                 users, nextId, dataFile,
                 extraVars>>

\* the store without the session sid
Destroyed(store, sid) == [k \in (DOMAIN store) \ {sid} |-> store[k]]

\* logoutUser: 400 without a user, else req.session.destroy and 200
LogoutStatus(store, sid) == IF SessionUser(store, sid) = Absent THEN 400 ELSE 200

\* MemoryStore.destroy deletes the session at once and defers the callback
\* that answers; a response that ends in between is held back behind it by
\* its own deferred save, so the two steps are taken as one
LogoutUser(sid) ==
  /\ app = "session"
  /\ sessions' = IF LogoutStatus(sessions, sid) = 200
                 THEN Destroyed(sessions, sid) ELSE sessions
  /\ reply' = Response("logout", sid,
                       LogoutStatus(sessions, sid))
  /\ lastAuth' = Remember(lastAuth, "logout", sid, LogoutStatus(sessions, sid))
  /\ UNCHANGED <<app, limit, windowMs, requests, requestStore, sweepDue, now, log,
                 users, nextId, dataFile,
                 fakeData, authUsers, inflight, requestCounts>>

\* cookie.maxAge has passed: the store drops the session
SessionExpire(sid) ==
  /\ app = "session"
  /\ sid \in DOMAIN sessions
  /\ sessions' = Destroyed(sessions, sid)
  /\ UNCHANGED <<app, limit, windowMs, requests, requestStore, sweepDue, now, log,
                 userVars, fakeData, authUsers, inflight, requestCounts, lastAuth>>

\* ---- the counter limiter of the middleware notes ----------------------------
\* the counter starts again once it has passed the threshold
CounterAfterWrap(store, ip) ==
  Put(store, ip, IF ip \in DOMAIN store /\ store[ip] <= COUNT_LIMIT
                 THEN store[ip] + 1 ELSE 1)

\* requestCounts[ip] = (requestCounts[ip] || 0) + 1
CounterAfter(store, ip) ==
  Put(store, ip, (IF ip \in DOMAIN store THEN store[ip] ELSE 0) + 1)

\* TRUE when the middleware calls next(): requestCounts[ip] > 100 is false
CounterOk(store, ip) == ~(CounterAfter(store, ip)[ip] > COUNT_LIMIT)

CounterRequest(c) ==
  /\ app = "counter"
  /\ Len(log) < MaxLog
  /\ requestCounts' = CounterAfter(requestCounts, KeyOf(c))
  /\ log' = Append(log, [op |-> "count", ip |-> c, t |-> now,
                         ok |-> CounterOk(requestCounts, KeyOf(c)), hdr |-> {}])
  /\ UNCHANGED <<app, limit, windowMs, requests, requestStore, sweepDue, now,
                 userVars, fakeData, authUsers, inflight, sessions, lastAuth>>

\* ---- time -------------------------------------------------------------------
Tick ==
  /\ app \in ClockApps
  /\ now < MaxTime
  /\ now' = now + 1
  /\ UNCHANGED <<app, limit, windowMs, requests, requestStore, sweepDue, log,
                 userVars,
                 extraVars>>

\* ---- specifications --------------------------------------------------------
InitStores ==
  /\ app \in Apps
  /\ requests = rateLimit(0, 0).requests
  /\ requestStore = EmptyStore
  /\ sweepDue = SWEEP_MS
  /\ now = 0
  /\ log = <<>>
  /\ users = IF app = "crud" THEN InitialUsers ELSE <<>>
  /\ nextId = IF app = "crud" THEN 3 ELSE 0
  /\ dataFile \in IF app = "controller" THEN {<<>>, WriteUsers(InitialUsers)}
                                         ELSE {<<>>}
  /\ reply = NoReply
  /\ fakeData = InitialFakeData
  /\ authUsers = <<>>
  /\ inflight = NoneInFlight
  /\ sessions = EmptyStore
  /\ requestCounts = EmptyStore
  /\ lastAuth = [sid \in SessionIds |-> "none"]

\* the sliding limiter is configured by its module constants; the programs
\* without a limiter never read limit and windowMs
InitSliding ==
  /\ app # "fixed"
  /\ limit = MAX_REQUESTS
  /\ windowMs = WINDOW_MS

Init ==
  /\ InitStores
  /\ \/ InitSliding
     \/ /\ app = "fixed"
        /\ \E l \in Limits, w \in Windows :
              /\ limit = rateLimit(l, w).limit
              /\ windowMs = rateLimit(l, w).windowMs

\* construction with arbitrary arguments, valid or not
InitConfig ==
  /\ InitStores
  /\ \/ InitSliding
     \/ /\ app = "fixed"
        /\ \E l \in ConfigLimits, w \in ConfigWindows :
              /\ limit = rateLimit(l, w).limit
              /\ windowMs = rateLimit(l, w).windowMs

Next ==
  \/ \E c \in Clients : FixedRequest(c)
  \/ \E c \in Clients : SlidingRequest(c)
  \/ Sweep
  \/ \E c \in AppClients, path \in AppPaths :
       \E dbFails \in DbOutcomes(path) : AppRequest(c, path, dbFails)
  \/ \E method \in Methods, path \in LogPaths : LogRequest(method, path)
  \/ \E name \in BodyNames, email \in BodyEmails : PostUser(name, email)
  \/ \E param \in IdParams, name \in BodyNames, email \in BodyEmails :
       PutUser(param, name, email)
  \/ \E param \in IdParams : DeleteUser(param)
  \/ \E name \in BodyNames, email \in BodyEmails : CtlCreate(name, email)
  \/ \E param \in IdParams, name \in BodyNames, email \in BodyEmails :
       CtlUpdate(param, name, email)
  \/ \E param \in IdParams : CtlDelete(param)
  \/ \E coll \in Collections, body \in CreateBodies, dbFails \in BOOLEAN :
       FakeDbCreate(coll, body, dbFails)
  \/ \E coll \in Collections, dbFails \in BOOLEAN : FakeDbList(coll, dbFails)
  \/ \E r \in ReqIds, username \in AuthNames, password \in NewPasswords :
       RegisterStart(r, username, password)
  \/ \E r \in ReqIds : AwaitDelay(r)
  \/ \E r \in ReqIds : RegisterFinish(r)
  \/ \E r \in ReqIds, sid \in SessionIds, username \in AuthNames,
        password \in AuthPasswords : LoginStart(r, sid, username, password)
  \/ \E r \in ReqIds : LoginFinish(r)
  \/ \E sid \in SessionIds : GetProfile(sid)
  \/ \E sid \in SessionIds : LogoutUser(sid)
  \/ \E sid \in SessionIds : SessionExpire(sid)
  \/ \E c \in Clients : CounterRequest(c)
  \/ Tick

Spec == Init /\ [][Next]_vars

SpecConfig == InitConfig /\ [][Next]_vars

\* time passes and a due timer callback runs
SpecLive == Init /\ [][Next]_vars /\ WF_vars(Tick) /\ WF_vars(Sweep)

\* ---- the history, as the claims read it -----------------------------------
Last(s) == s[Len(s)]

\* window length and budget of the running limiter
Win == windowMs
Lim == limit

\* positions in the history of the requests of client c
ReqIdx(c) == {i \in 1..Len(log) : log[i].op = "req" /\ log[i].ip = c}

\* requests of c with a timestamp in [lo, hi)
ReqIn(c, lo, hi) == {i \in ReqIdx(c) : lo <= log[i].t /\ log[i].t < hi}

\* admitted requests of c with a timestamp in [lo, hi)
AdmIn(c, lo, hi) == {i \in ReqIn(c, lo, hi) : log[i].ok}

\* the step handles one request of client c
Handled(c) ==
  /\ Len(log') = Len(log) + 1
  /\ Last(log').op = "req"
  /\ Last(log').ip = c

\* ---- C1 ------------------------------------------------------------------
\* C1 (original claim): in the fixed-window limiter, every interval
\* [a, a + windowMs), aligned with startTime or not, holds at most limit
\* admitted requests of each client.
C1_AnyInterval ==
  app = "fixed" =>
    \A c \in Clients : \A a \in 0..MaxTime :
      Cardinality(AdmIn(c, a, a + windowMs)) <= limit

\* C1 (amended): in the fixed-window limiter, the interval
\* [startTime, startTime + windowMs) of each client's stored record holds at
\* most limit admitted requests of that client.
C1_AlignedWindow ==
  app = "fixed" =>
    \A c \in Clients \cap DOMAIN requests :
      Cardinality(AdmIn(c, requests[c].startTime,
                        requests[c].startTime + windowMs)) <= limit

\* a client has used up the budget of its current window right after the
\* previous one, so that more than limit admissions lie within windowMs
C1_Witness ==
  /\ app = "fixed"
  /\ \E c \in Clients \cap DOMAIN requests :
       /\ Cardinality(AdmIn(c, requests[c].startTime,
                            requests[c].startTime + windowMs)) = limit
       /\ \E a \in 0..MaxTime : Cardinality(AdmIn(c, a, a + windowMs)) > limit

\* ---- C2 ------------------------------------------------------------------
\* C2: in the sliding-window limiter, every interval [a, a + WINDOW_MS) holds
\* at most MAX_REQUESTS admitted requests of each client, and when more than
\* MAX_REQUESTS requests of one client fall in such an interval at least one
\* of them is answered with 429.
C2_SlidingBudget ==
  app = "sliding" =>
    \A c \in Clients : \A a \in (0 - WINDOW_MS)..MaxTime :
      /\ Cardinality(AdmIn(c, a, a + WINDOW_MS)) <= MAX_REQUESTS
      /\ Cardinality(ReqIn(c, a, a + WINDOW_MS)) > MAX_REQUESTS
           => \E i \in ReqIn(c, a, a + WINDOW_MS) : ~log[i].ok

\* more than MAX_REQUESTS requests of one client at different times of one
\* interval, MAX_REQUESTS of them admitted and one rejected
C2_Witness ==
  /\ app = "sliding"
  /\ \E c \in Clients : \E a \in 0..MaxTime :
       /\ Cardinality(ReqIn(c, a, a + WINDOW_MS)) > MAX_REQUESTS
       /\ Cardinality(AdmIn(c, a, a + WINDOW_MS)) = MAX_REQUESTS
       /\ \E i, j \in ReqIn(c, a, a + WINDOW_MS) : log[i].t # log[j].t

\* ---- C3 ------------------------------------------------------------------
\* the requests of c that read the timestamp tm
Burst(c, tm) == ReqIn(c, tm, tm + 1)

\* C3: for both limiters, when N > L requests of one client read the same
\* timestamp and the client has no earlier request in the window, exactly L
\* of them are admitted and N - L are rejected, whatever the order in which
\* the invocations run.
C3_ConcurrentBurst ==
  \A c \in Clients : \A tm \in 0..MaxTime :
    (/\ ReqIn(c, tm - Win + 1, tm) = {}
     /\ Cardinality(Burst(c, tm)) > Lim)
    => /\ Cardinality(AdmIn(c, tm, tm + 1)) = Lim
       /\ Cardinality(Burst(c, tm) \ AdmIn(c, tm, tm + 1))
            = Cardinality(Burst(c, tm)) - Lim

\* a burst larger than the budget, interleaved with requests of the other
\* client at the same timestamp, after an earlier expired window
C3_Witness ==
  \E c \in Clients : \E tm \in 1..MaxTime :
    /\ ReqIn(c, tm - Win + 1, tm) = {}
    /\ ReqIn(c, 0, tm) # {}
    /\ Cardinality(Burst(c, tm)) > Lim

\* ---- C4 ------------------------------------------------------------------
\* the position of request i among the requests of its client
Rank(c, i) == Cardinality({j \in ReqIdx(c) : j <= i})

\* the first request of c, which opens c's first window
FirstIdx(c) == CHOOSE i \in ReqIdx(c) : \A j \in ReqIdx(c) : i <= j

\* the requests of c at or after the end of c's first window
Beyond(c) == {i \in ReqIdx(c) : log[i].t >= log[FirstIdx(c)].t + windowMs}

\* C4: fixed-window limiter, client first seen at time s: of the requests
\* with timestamps in [s, s + windowMs) exactly the first limit are admitted
\* and the others rejected; the first request at or after s + windowMs is
\* admitted and starts a new window.
C4_FirstWindow ==
  app = "fixed" =>
    \A c \in Clients : ReqIdx(c) # {} =>
      LET s == log[FirstIdx(c)].t IN
      /\ \A i \in ReqIn(c, s, s + windowMs) : log[i].ok <=> (Rank(c, i) <= limit)
      /\ \A i \in Beyond(c) :
           (\A j \in Beyond(c) : i <= j) =>
             /\ log[i].ok
             /\ (\A j \in ReqIdx(c) : j <= i) =>
                  requests[c] = [count |-> 1, startTime |-> log[i].t]

\* limit admissions and a rejection in the first window, then the request
\* that opens the next window
C4_Witness ==
  /\ app = "fixed"
  /\ \E c \in Clients :
       /\ ReqIdx(c) # {}
       /\ \E i \in ReqIn(c, log[FirstIdx(c)].t, log[FirstIdx(c)].t + windowMs) :
            ~log[i].ok
       /\ Beyond(c) # {}
       /\ Last(log).ip = c

\* ---- C5 ------------------------------------------------------------------
\* C5: fixed-window limiter: a request whose timestamp is exactly
\* startTime + windowMs resets the record to count 1 and startTime = that
\* timestamp and is admitted, also when the expiring window was exhausted.
C5_BoundaryReset ==
  [][\A c \in Clients :
       (/\ app = "fixed"
        /\ Handled(c)
        /\ c \in DOMAIN requests
        /\ now = requests[c].startTime + windowMs)
       => /\ requests'[c] = [count |-> 1, startTime |-> now]
          /\ Last(log').ok]_vars

\* a window that was exhausted (its last request rejected), then a request
\* at exactly startTime + windowMs
C5_Witness ==
  /\ app = "fixed"
  /\ Len(log) >= 2
  /\ Last(log).op = "req"
  /\ \E i \in ReqIdx(Last(log).ip) :
       /\ i < Len(log)
       /\ ~log[i].ok
       /\ \A j \in ReqIdx(Last(log).ip) : j < Len(log) => j <= i
       /\ Last(log).t = log[FirstIdx(Last(log).ip)].t + windowMs
       /\ Beyond(Last(log).ip) = {Len(log)}

\* ---- C6 ------------------------------------------------------------------
\* the history without the requests of any client but b
Only(b) == SelectSeq(log, LAMBDA e : e.op = "sweep" \/ e.ip = b)

RECURSIVE Rerun(_, _, _)
\* the history lg handled again from the stores fs and ss
Rerun(lg, fs, ss) ==
  IF lg = <<>> THEN <<>>
  ELSE LET e == Head(lg) IN
       IF e.op = "sweep"
       THEN <<e>> \o Rerun(Tail(lg), fs, SweepAfter(ss, e.t))
       ELSE IF app = "fixed"
       THEN <<[e EXCEPT !.ok = FixedOk(fs, e.ip, e.t, windowMs, limit)]>>
            \o Rerun(Tail(lg), FixedAfter(fs, e.ip, e.t, windowMs), ss)
       ELSE <<[e EXCEPT !.ok = SlidingOk(ss, e.ip, e.t)]>>
            \o Rerun(Tail(lg), fs, SlidingAfter(ss, e.ip, e.t))

\* the decisions for b are those of the run in which only b sends requests
C6_SameDecisions ==
  app \in {"fixed"} \cup SlidingApps =>
    \A b \in Clients : Only(b) = Rerun(Only(b), EmptyStore, EmptyStore)

\* the record of b, or its absence
RecordOf(store, b) == IF b \in DOMAIN store THEN <<store[b]>> ELSE <<>>

\* a request of c leaves the record of every other client as it was
C6_OthersUntouched ==
  \A c \in Clients : Handled(c) =>
    \A b \in Clients \ {c} :
      /\ RecordOf(requests', b) = RecordOf(requests, b)
      /\ RecordOf(requestStore', b) = RecordOf(requestStore, b)

\* C6: for both limiters, handling a request of client A leaves the stored
\* record of every other client B unchanged, and every decision for B is the
\* decision B gets in the run that differs only in A's requests.
C6_Independent == []C6_SameDecisions /\ [][C6_OthersUntouched]_vars

\* one client was rejected and the other client was admitted afterwards,
\* inside the same window
C6_Witness ==
  \E a \in Clients : \E b \in Clients \ {a} :
    \E i \in ReqIdx(a) : \E j \in ReqIdx(b) :
      /\ ~log[i].ok
      /\ i < j
      /\ log[j].ok
      /\ log[j].t - log[i].t < Win

\* ---- C7 ------------------------------------------------------------------
\* C7: for both limiters, a request answered with 429 leaves the client's
\* record (count and startTime, or the timestamp list) exactly as it was.
C7_RejectKeepsRecord ==
  [][\A c \in Clients :
       (Handled(c) /\ ~Last(log').ok)
       => /\ RecordOf(requests', c) = RecordOf(requests, c)
          /\ RecordOf(requestStore', c) = RecordOf(requestStore, c)]_vars

\* ---- C8 ------------------------------------------------------------------
\* C8: the stored count of the fixed-window limiter never exceeds limit + 1,
\* and the timestamp list of the sliding-window limiter never holds more
\* than MAX_REQUESTS entries.
C8_RecordBounded ==
  /\ \A c \in DOMAIN requests : requests[c].count <= limit + 1
  /\ \A c \in DOMAIN requestStore : Len(requestStore[c]) <= MAX_REQUESTS

\* ---- C9 ------------------------------------------------------------------
\* C9: under a configuration with limit <= 0 or windowMs <= 0 the
\* fixed-window limiter handles no request at all, neither admitting nor
\* rejecting one.
C9_InvalidConfigServesNothing ==
  (app = "fixed" /\ (limit <= 0 \/ windowMs <= 0)) =>
    \A c \in Clients : ReqIdx(c) = {}

\* ---- C10 -----------------------------------------------------------------
\* admitted requests of c before position k of the history
AdmBefore(c, k) == {i \in ReqIdx(c) : i < k /\ log[i].ok}

\* at the sweep recorded at position k, c's last admitted request is at
\* least WINDOW_MS old
Expired(c, k) ==
  /\ AdmBefore(c, k) # {}
  /\ \A i \in AdmBefore(c, k) : log[k].t - log[i].t >= WINDOW_MS

\* the step is a run of the cleanup callback
Swept == Len(log') = Len(log) + 1 /\ Last(log').op = "sweep"

\* the sweep deletes every expired client
C10_SweepDeletes ==
  Swept =>
    \A c \in Clients :
      (/\ AdmBefore(c, Len(log) + 1) # {}
       /\ \A i \in AdmBefore(c, Len(log) + 1) : now - log[i].t >= WINDOW_MS)
      => c \notin DOMAIN requestStore'

\* request j is the first request of c after the sweep at k that expired c
FirstAfterSweep(c, k, j) ==
  /\ j \in ReqIdx(c)
  /\ k \in 1..(j - 1)
  /\ log[k].op = "sweep"
  /\ \A i \in ReqIdx(c) : ~(k < i /\ i < j)
  /\ Expired(c, k)

\* the next request of a swept client gets a fresh record and is admitted
C10_FreshAfterSweep ==
  app = "sliding" =>
    \A c \in Clients : \A j \in ReqIdx(c) : \A k \in 1..(j - 1) :
      FirstAfterSweep(c, k, j) =>
        /\ log[j].ok
        /\ j = Len(log) => requestStore[c] = <<log[j].t>>

\* C10: sliding-window limiter: a sweep at time now deletes the entry of
\* every client whose most recent admitted request is at least WINDOW_MS
\* older than now, and the next request of such a client is admitted into a
\* fresh record, like the request of a client never seen.
C10_SweepForgets == []C10_FreshAfterSweep /\ [][C10_SweepDeletes]_vars

\* a sweep deleted one client and kept the other, and the deleted client
\* has just sent its next request
C10_Witness ==
  /\ app = "sliding"
  /\ log # <<>>
  /\ \E k \in 1..(Len(log) - 1) :
       /\ FirstAfterSweep(Last(log).ip, k, Len(log))
       /\ \E b \in DOMAIN requestStore :
            b # Last(log).ip /\ requestStore[b][1] < log[k].t

\* ---- C11 -----------------------------------------------------------------
\* the state right after a run of the cleanup callback
JustSwept == log # <<>> /\ Last(log).op = "sweep"

\* clients with a request, admitted or rejected, less than WINDOW_MS before nowT
ActiveClients(nowT) ==
  {c \in Clients : \E i \in ReqIdx(c) : nowT - log[i].t < WINDOW_MS}

\* clients with an admitted request less than WINDOW_MS before nowT
AdmittedClients(nowT) ==
  {c \in Clients : \E i \in ReqIdx(c) : log[i].ok /\ nowT - log[i].t < WINDOW_MS}

\* C11 (original claim): right after the sweep at time now the keys of
\* requestStore are exactly the clients that sent a request, admitted or
\* rejected, within the last WINDOW_MS.
C11_KeysAreActive ==
  (app = "sliding" /\ JustSwept) =>
    DOMAIN requestStore = ActiveClients(Last(log).t)

\* C11 (amended): right after the sweep at time now the keys of requestStore
\* are exactly the clients with an admitted request less than WINDOW_MS
\* before now; rejected requests do not keep a client's entry alive.
C11_KeysAreAdmitted ==
  (app = "sliding" /\ JustSwept) =>
    DOMAIN requestStore = AdmittedClients(Last(log).t)

\* a sweep kept one client and deleted another whose only request inside
\* the window was rejected
C11_Witness ==
  /\ app = "sliding"
  /\ JustSwept
  /\ DOMAIN requestStore # {}
  /\ \E c \in ActiveClients(Last(log).t) : c \notin DOMAIN requestStore

\* ---- C12 -----------------------------------------------------------------
\* times at which a sweep may run from the current state on
SweepTimes == now..(MaxTime + WINDOW_MS)

\* C12: sliding-window limiter: the sweep run at now1 and again at
\* now2 >= now1, with no request in between, leaves requestStore as the one
\* sweep at now2 does; run twice at the same time it changes nothing more.
C12_SweepIdempotent ==
  app = "sliding" =>
    \A n1 \in SweepTimes : \A n2 \in n1..(MaxTime + WINDOW_MS) :
      /\ SweepAfter(SweepAfter(requestStore, n1), n2) = SweepAfter(requestStore, n2)
      /\ SweepAfter(SweepAfter(requestStore, n1), n1) = SweepAfter(requestStore, n1)

\* a store in which a sweep prunes one list without emptying it and deletes
\* nothing, so that a later sweep still has work to do
C12_Witness ==
  /\ app = "sliding"
  /\ \E c \in DOMAIN requestStore : \E n1 \in SweepTimes :
       /\ SweepAfter(requestStore, n1) # requestStore
       /\ c \in DOMAIN SweepAfter(requestStore, n1)
       /\ Len(SweepAfter(requestStore, n1)[c]) < Len(requestStore[c])

\* ---- C13 -----------------------------------------------------------------
Sorted(s) == \A i, j \in 1..Len(s) : i <= j => s[i] <= s[j]

NoneOlder(s, nowT) == \A i \in 1..Len(s) : s[i] >= nowT - WINDOW_MS

\* C13: sliding-window limiter: the list the length check of a request at
\* time now looks at, and the list stored after the request, hold no
\* timestamp older than now - WINDOW_MS; every stored list is in
\* non-decreasing order.
C13_PrunedAndSorted ==
  app = "sliding" =>
    /\ \A c \in Clients : NoneOlder(Pruned(requestStore, c, now), now)
    /\ \A c \in DOMAIN requestStore : Sorted(requestStore[c])
    /\ (log # <<>> /\ Last(log).op = "req") =>
         NoneOlder(requestStore[Last(log).ip], Last(log).t)

\* a request has just been handled for a client whose list held a timestamp
\* that had left the window
C13_Witness ==
  /\ app = "sliding"
  /\ log # <<>>
  /\ Last(log).op = "req"
  /\ \E i \in ReqIdx(Last(log).ip) :
       log[i].ok /\ Last(log).t - log[i].t >= WINDOW_MS
  /\ \A i \in 1..Len(log) : log[i].op # "sweep"

\* ---- C14 -----------------------------------------------------------------
\* c has a record and its last request is at least windowMs old
IdleRecord(c) ==
  /\ app = "fixed"
  /\ c \in DOMAIN requests
  /\ \A i \in ReqIdx(c) : now - log[i].t >= windowMs

\* C14: fixed-window limiter: once a client has sent no request for at
\* least windowMs, its entry is eventually removed from requests.
C14_IdleRecordRemoved ==
  \A c \in Clients : [](IdleRecord(c) => <>(c \notin DOMAIN requests))

\* ---- C15 -----------------------------------------------------------------
HeaderNames(h) == {p[1] : p \in h}

RateLimitHeaderNames ==
  {"X-RateLimit-Limit", "X-RateLimit-Remaining", "X-RateLimit-Reset"}

\* C15: sliding-window limiter: every response to a rejected request (429)
\* carries X-RateLimit-Limit, X-RateLimit-Remaining and X-RateLimit-Reset,
\* as the responses to admitted requests do.
C15_RejectedHasHeaders ==
  app = "sliding" =>
    \A i \in 1..Len(log) :
      log[i].op = "req" => RateLimitHeaderNames \subseteq HeaderNames(log[i].hdr)

\* ---- C16 -----------------------------------------------------------------
\* C16: in the refactored app a request to GET /health is never answered
\* with 429 and never adds a timestamp to the client's requestStore entry.
C16_HealthNotLimited ==
  [][\A c \in AppClients :
       (app = "refactored" /\ Handled(c) /\ Last(log').path = "/health")
       => /\ Last(log').status # 429
          /\ requestStore'[c] # Append(Pruned(requestStore, c, now), now)]_vars

\* ---- C17 -----------------------------------------------------------------
\* C17: in the refactored app every response to GET /api/users has status
\* 200 or 503, whatever requests the client has sent before.
C17_UsersStatus ==
  app = "refactored" =>
    \A i \in 1..Len(log) :
      (log[i].op = "req" /\ log[i].path = "/api/users")
      => log[i].status \in {200, 503}

\* ---- C18 -----------------------------------------------------------------
\* C18: in the request-logging server every response, for every registered
\* route and for unknown paths, is preceded by the logging middleware's line
\* for the same request.
C18_LoggedBeforeSend ==
  app = "logger" =>
    \A i \in 1..Len(log) :
      log[i].op = "send"
      => /\ i > 1
         /\ log[i - 1].op = "log"
         /\ log[i - 1].method = log[i].method
         /\ log[i - 1].path = log[i].path

\* ---- C19 -----------------------------------------------------------------
Ids(us) == {us[i].id : i \in 1..Len(us)}

\* no two users share an email or an id, and every id in use is below nextId
C19_Distinct ==
  app = "crud" =>
    /\ \A i, j \in 1..Len(users) :
         i # j => users[i].email # users[j].email /\ users[i].id # users[j].id
    /\ \A i \in 1..Len(users) : users[i].id < nextId

\* nextId never goes back and an id that appears is not below it
C19_FreshIds ==
  app = "crud" =>
    /\ nextId' >= nextId
    /\ \A k \in 1..Len(users') :
         users'[k].id \notin Ids(users) => users'[k].id >= nextId

\* C19: in the in-memory CRUD API, after any sequence of POST, PUT and
\* DELETE requests no two users share an email or an id, and an id once
\* assigned is never assigned again, also after its user was deleted.
C19_UniqueUsers == []C19_Distinct /\ [][C19_FreshIds]_vars

\* a user has just been created after an earlier user was deleted
C19_Witness ==
  /\ app = "crud"
  /\ reply.op = "POST"
  /\ reply.status = 201
  /\ \E id \in 1..(nextId - 1) : id \notin Ids(users)
  /\ Len(users) >= 2

\* ---- C20 -----------------------------------------------------------------
\* the users an update request finds: the array, or the parsed data file
StoredUsers == IF app = "crud" THEN users ELSE ReadUsers(dataFile)

\* what the update request r may do to the users us, giving us2
UpdateFrame(us, us2, r) ==
  LET id == ParseInt(r.param) IN
  /\ Len(us2) = Len(us)
  /\ (\A i \in 1..Len(us) : us[i].id # id) => (r.status = 404 /\ us2 = us)
  /\ r.status # 200 => us2 = us
  /\ r.status = 200 =>
       \E k \in 1..Len(us) :
         /\ us[k].id = id
         /\ \A j \in 1..Len(us) : j # k => us2[j] = us[j]
         /\ us2[k].id = us[k].id
         /\ us2[k].name = (IF r.name = Absent THEN us[k].name ELSE r.name)
         /\ us2[k].email = (IF r.email = Absent THEN us[k].email ELSE r.email)

\* C20: update user (PUT /api/users/:id of the notes API and updateUser of
\* usersController.js): a successful update changes only the name and email
\* given in the body, on the one user with the matching id; the id, the
\* omitted fields, the other users and the number of users stay; an unknown
\* id is answered 404 and changes nothing.
C20_UpdateFrame ==
  [][(app \in {"crud", "controller"} /\ reply'.op = "PUT")
     => UpdateFrame(StoredUsers, StoredUsers', reply')]_vars

\* an update with a name and without an email has just renamed a user that
\* is not the only one
C20_Witness ==
  /\ app \in {"crud", "controller"}
  /\ reply.op = "PUT"
  /\ reply.status = 200
  /\ reply.name # Absent
  /\ reply.email = Absent
  /\ Len(StoredUsers) >= 2
  /\ \E k \in 1..Len(StoredUsers) :
       /\ StoredUsers[k].id = ParseInt(reply.param)
       /\ StoredUsers[k].name = reply.name
       /\ StoredUsers[k].email # Absent

\* ---- C21 -----------------------------------------------------------------
\* the items of a collection
Items(seq) == {seq[i] : i \in 1..Len(seq)}

\* the collection that a create request for coll must leave alone
OtherCollection(coll) == IF coll = "users" THEN "products" ELSE "users"

\* the step answers a create request with 201
Created(coll) ==
  /\ app = "fakedb"
  /\ reply'.op = "POST"
  /\ reply'.coll = coll
  /\ reply'.status = 201

\* C21: in the refactored app a successful createProduct adds the new item
\* to the products collection, where a later getAllProducts finds it, and
\* leaves users unchanged; a successful createUser adds to users and leaves
\* products unchanged.
C21_CreateFrame ==
  [][\A coll \in Collections :
       Created(coll) =>
         /\ reply'.data[1] \in Items(fakeData'[coll])
         /\ Len(fakeData'[coll]) = Len(fakeData[coll]) + 1
         /\ fakeData'[OtherCollection(coll)] = fakeData[OtherCollection(coll)]]_vars

\* ---- C22 -----------------------------------------------------------------
\* checkAndRecord of the specification, fixed-window policy: the ClientWindow
\* of key after the call at time t
CheckAndRecordWindow(wins, key, t, lim, w) ==
  IF key \notin DOMAIN wins THEN [count |-> 1, windowStart |-> t]
  ELSE IF t - wins[key].windowStart >= w THEN [count |-> 1, windowStart |-> t]
  ELSE IF wins[key].count < lim
       THEN [count |-> wins[key].count + 1, windowStart |-> wins[key].windowStart]
  ELSE wins[key]

\* its decision: steps 1 to 3 admit, step 4 rejects
CheckAndRecordAdmits(wins, key, t, lim, w) ==
  \/ key \notin DOMAIN wins
  \/ t - wins[key].windowStart >= w
  \/ wins[key].count < lim

RECURSIVE SpecWindows(_)
\* the ClientWindows after checkAndRecord has seen the first k requests of
\* the history
SpecWindows(k) ==
  IF k = 0 THEN EmptyStore
  ELSE Put(SpecWindows(k - 1), log[k].ip,
           CheckAndRecordWindow(SpecWindows(k - 1), log[k].ip, log[k].t, Lim, Win))

\* rateLimit and checkAndRecord agree on the history so far
C22_Agrees ==
  app = "fixed" =>
    /\ \A k \in 1..Len(log) :
         log[k].ok = CheckAndRecordAdmits(SpecWindows(k - 1), log[k].ip,
                                          log[k].t, Lim, Win)
    /\ DOMAIN requests = DOMAIN SpecWindows(Len(log))
    /\ \A c \in DOMAIN requests :
         requests[c].startTime = SpecWindows(Len(log))[c].windowStart

\* C22: for every sequence of requests with non-decreasing timestamps, every
\* limit >= 1 and every windowMs >= 1, rateLimit (increment first, reject
\* when count > limit) decides each request as the four-step checkAndRecord
\* of the specification does, and the stored window start agrees after
\* every request.
C22_SameAsCheckAndRecord == []C22_Agrees

\* a client was admitted, rejected in the same window and admitted again
\* after the window had expired
C22_Witness ==
  /\ app = "fixed"
  /\ \E c \in Clients : \E i, j, k \in ReqIdx(c) :
       /\ i < j /\ j < k
       /\ log[i].ok /\ ~log[j].ok /\ log[k].ok
       /\ requests[c].startTime = log[k].t
       /\ requests[c].startTime > log[i].t

\* ---- C23 -----------------------------------------------------------------
\* admitted requests of c so far whose timestamp is not older than
\* nowT - WINDOW_MS, the boundary instant included
NotOlder(c, nowT) ==
  {i \in ReqIdx(c) : log[i].ok /\ log[i].t >= nowT - WINDOW_MS}

\* C23: the sliding-window limiter admits a request of client k at time now
\* if and only if fewer than MAX_REQUESTS previously admitted requests of k
\* have a timestamp not older than now - WINDOW_MS, where a timestamp of
\* exactly now - WINDOW_MS is not older and still counts; on admission the
\* value now is appended to k's list.
C23_AdmitIffBudget ==
  [][\A c \in Clients :
       (app \in SlidingApps /\ Handled(c)) =>
         /\ Last(log').ok <=> (Cardinality(NotOlder(c, now)) < MAX_REQUESTS)
         /\ Last(log').ok =>
              /\ requestStore'[c] # <<>>
              /\ Last(requestStore'[c]) = now]_vars

\* admitted requests of c so far whose timestamp is newer than
\* nowT - WINDOW_MS
Newer(c, nowT) ==
  {i \in ReqIdx(c) : log[i].ok /\ log[i].t > nowT - WINDOW_MS}

\* C23 (amended): the sliding-window limiter admits a request of client k at
\* time now if and only if fewer than MAX_REQUESTS previously admitted
\* requests of k have a timestamp newer than now - WINDOW_MS; a timestamp of
\* exactly now - WINDOW_MS has expired and no longer counts.  On admission
\* the value now is appended to k's list.
C23_AdmitIffNewer ==
  [][\A c \in Clients :
       (app \in SlidingApps /\ Handled(c)) =>
         /\ Last(log').ok <=> (Cardinality(Newer(c, now)) < MAX_REQUESTS)
         /\ Last(log').ok =>
              /\ requestStore'[c] # <<>>
              /\ Last(requestStore'[c]) = now]_vars

\* a request was admitted although MAX_REQUESTS admitted requests of its
\* client are exactly WINDOW_MS old
C23_Witness ==
  /\ app = "sliding"
  /\ log # <<>>
  /\ Last(log).op = "req"
  /\ Last(log).ok
  /\ Last(log).t = now
  /\ Cardinality({i \in ReqIdx(Last(log).ip) :
                    log[i].ok /\ log[i].t = now - WINDOW_MS}) = MAX_REQUESTS
  /\ requestStore[Last(log).ip] = <<now>>

\* ---- C24 -----------------------------------------------------------------
RECURSIVE FixedStores(_)
\* the store rateLimit held after the first k entries of the history
FixedStores(k) ==
  IF k = 0 THEN EmptyStore
  ELSE FixedAfter(FixedStores(k - 1), log[k].ip, log[k].t, Win)

\* startTime of client c after entry k of the history
StartAt(c, k) == FixedStores(k)[KeyOf(c)].startTime

\* after a rejection the window holds only rejections
C24_RunOfRejections ==
  app = "fixed" =>
    \A c \in Clients : \A i, j \in ReqIdx(c) :
      (i < j /\ ~log[i].ok /\ log[j].t < StartAt(c, i) + Win)
        => /\ ~log[j].ok
           /\ StartAt(c, j) = StartAt(c, i)

\* C24: rateLimit, once it has rejected a request of a client in the window
\* starting at s, rejects every later request of that client with a
\* timestamp below s + windowMs and none of them moves startTime: inside one
\* window the decisions are a run of admissions followed only by rejections.
C24_RejectedUntilWindowEnds == []C24_RunOfRejections

\* a client was rejected twice in one window and admitted after it
C24_Witness ==
  /\ app = "fixed"
  /\ \E c \in Clients : \E i, j, k \in ReqIdx(c) :
       /\ i < j /\ j < k
       /\ ~log[i].ok /\ ~log[j].ok /\ log[k].ok
       /\ log[j].t > log[i].t
       /\ log[j].t < StartAt(c, i) + Win
       /\ log[k].t >= StartAt(c, i) + Win

\* ---- C25 -----------------------------------------------------------------
\* the invocation answered 429 itself and did not call next()
Answered429(e) == e.out.sent = <<429>> /\ e.out.nexts = 0 /\ ~e.ok

\* the invocation called next() once and sent nothing itself
PassedOn(e) == e.out.sent = <<>> /\ e.out.nexts = 1 /\ e.ok

\* every handled request has one outcome
C25_EitherOr ==
  \A k \in 1..Len(log) :
    log[k].op = "req" =>
      /\ Answered429(log[k]) \/ PassedOn(log[k])
      /\ ~(Answered429(log[k]) /\ PassedOn(log[k]))

\* C25: for both limiters every middleware invocation ends in exactly one of
\* two outcomes: it sends a 429 response and does not call next(), or it
\* calls next() exactly once and sends no response itself.
C25_OneOutcome == []C25_EitherOr

\* a limiter has answered one request with 429 and passed another on
C25_Witness ==
  /\ app \in {"fixed", "sliding"}
  /\ \E i, j \in 1..Len(log) :
       /\ log[i].op = "req" /\ Answered429(log[i])
       /\ log[j].op = "req" /\ PassedOn(log[j])

\* ---- C26 -----------------------------------------------------------------
\* the values a set of headers gives to the header name
HeaderValues(h, name) == {p[2] : p \in {q \in h : q[1] = name}}

\* C26: on every admitted request of the sliding-window limiter the header
\* X-RateLimit-Remaining equals MAX_REQUESTS minus the number of the
\* client's admitted requests in the trailing window, the current one
\* included; it lies between 0 and MAX_REQUESTS - 1 and is 0 exactly when
\* the client's next request at the same timestamp would be rejected.
C26_Remaining ==
  [][\A c \in Clients :
       (app \in SlidingApps /\ Handled(c) /\ Last(log').ok) =>
         LET rem == HeaderValues(Last(log').hdr, "X-RateLimit-Remaining") IN
         /\ rem = {MAX_REQUESTS - (Cardinality(Newer(c, now)) + 1)}
         /\ rem \subseteq 0..(MAX_REQUESTS - 1)
         /\ (rem = {0}) <=> ~SlidingOk(requestStore', c, now)]_vars

\* a client has used up its budget: the last admitted request carries
\* Remaining 0 after an earlier one, now expired, and one still in the window
C26_Witness ==
  /\ app = "sliding"
  /\ log # <<>>
  /\ Last(log).op = "req"
  /\ Last(log).ok
  /\ HeaderValues(Last(log).hdr, "X-RateLimit-Remaining") = {0}
  /\ \E i \in ReqIdx(Last(log).ip) :
       log[i].ok /\ log[i].t <= Last(log).t - WINDOW_MS

\* ---- C27 -----------------------------------------------------------------
RECURSIVE NoSweepStores(_)
\* the store rateLimiter would hold after the first k entries of the
\* history had the cleanup never run: the requests alone, in their order
NoSweepStores(k) ==
  IF k = 0 THEN EmptyStore
  ELSE IF log[k].op = "req"
       THEN SlidingAfter(NoSweepStores(k - 1), log[k].ip, log[k].t)
       ELSE NoSweepStores(k - 1)

\* every request was decided as in the run without any sweep
C27_SameDecisions ==
  app \in SlidingApps =>
    \A k \in 1..Len(log) :
      log[k].op = "req" =>
        log[k].ok = SlidingOk(NoSweepStores(k - 1), log[k].ip, log[k].t)

\* a sweep deletes no record that holds a timestamp inside the window
C27_KeepsLiveRecords ==
  (app \in SlidingApps /\ Swept) =>
    \A c \in (DOMAIN requestStore) \ (DOMAIN requestStore') :
      \A n \in 1..Len(requestStore[c]) : now - requestStore[c][n] >= WINDOW_MS

\* C27: interleaving the periodic sweep at arbitrary points between request
\* handlings never changes an admission decision of the sliding-window
\* limiter: each request is admitted with sweeps interleaved if and only if
\* it is admitted in the run without any sweep; and a sweep never deletes a
\* record that still holds a timestamp inside the window.
C27_SweepTransparent == []C27_SameDecisions /\ [][C27_KeepsLiveRecords]_vars

\* a sweep ran between two requests of one client in the same window, and
\* the request after it was rejected as the budget counted before it demands
C27_Witness ==
  /\ app = "sliding"
  /\ \E i, k, j \in 1..Len(log) :
       /\ i < k /\ k < j
       /\ log[k].op = "sweep"
       /\ log[i].op = "req" /\ log[j].op = "req"
       /\ log[i].ip = log[j].ip
       /\ log[i].ok /\ ~log[j].ok
       /\ log[j].t - log[i].t < WINDOW_MS

\* ---- C28 -----------------------------------------------------------------
\* the entries of the users array with the username name
EntriesOf(name) == {i \in 1..Len(authUsers) : authUsers[i].username = name}

\* C28: registerUser: after any interleaving of concurrent register requests
\* the users array holds at most one entry per username, so that of several
\* concurrent registrations of one username one is answered 201 and the
\* others 409, although the duplicate check runs before the awaits and the
\* push after them.
C28_OneEntryPerUsername ==
  app \in AuthApps =>
    \A name \in AuthNames : Cardinality(EntriesOf(name)) <= 1

\* ---- C29 -----------------------------------------------------------------
\* the most recent successful loginUser of session sid has not been followed
\* by a successful logoutUser
LoggedIn(sid) == lastAuth[sid] = "login"

\* getProfile answers 200 or 401, and 200 only to a logged-in session
C29_ProfileOnlyLoggedIn ==
  (app = "session" /\ reply.op = "profile") =>
    /\ reply.status \in {200, 401}
    /\ reply.status = 200 => LoggedIn(reply.sid)

\* the step sends a response of handler op
Responds(op) == app = "session" /\ reply' # reply /\ reply'.op = op

\* logoutUser without a logged-in user answers 400 and changes nothing; a
\* failed loginUser leaves every session as it was
C29_FailuresChangeNothing ==
  /\ (Responds("logout") /\ ~LoggedIn(reply'.sid)) => reply'.status = 400
  /\ (Responds("logout") /\ reply'.status = 400) =>
       /\ sessions' = sessions
       /\ lastAuth' = lastAuth
       /\ authUsers' = authUsers
  /\ (Responds("login") /\ reply'.status \in {400, 404, 401}) =>
       /\ sessions' = sessions
       /\ lastAuth' = lastAuth

\* C29: session auth API: getProfile answers a session with success only if
\* the session's most recent successful loginUser has not been followed by
\* a successful logoutUser, and with 401 before any login and after logout;
\* logoutUser on a session without a logged-in user answers 400 and changes
\* nothing; a failed login (400, 404 or 401) never sets req.session.user.
C29_SessionAuth ==
  []C29_ProfileOnlyLoggedIn /\ [][C29_FailuresChangeNothing]_vars

\* one session is logged in and has just read its profile; the other has
\* logged in and out again
C29_Witness ==
  /\ app = "session"
  /\ reply = Response("profile", "s1", 200)
  /\ lastAuth["s1"] = "login"
  /\ lastAuth["s2"] = "logout"
  /\ "s2" \notin DOMAIN sessions

\* ---- C30 -----------------------------------------------------------------
\* positions in the history of the requests of client c to the counter limiter
CountIdx(c) == {i \in 1..Len(log) : log[i].op = "count" /\ log[i].ip = c}

\* the counter is the number of requests and decides alone
C30_CountsRequests ==
  app = "counter" =>
    \A c \in Clients :
      /\ (c \in DOMAIN requestCounts) <=> (CountIdx(c) # {})
      /\ c \in DOMAIN requestCounts =>
           requestCounts[c] = Cardinality(CountIdx(c))
      /\ \A k \in CountIdx(c) :
           log[k].ok <=> (Cardinality({i \in CountIdx(c) : i <= k}) <= COUNT_LIMIT)
      /\ \A i, k \in CountIdx(c) : (i < k /\ ~log[i].ok) => ~log[k].ok

\* C30: in the counter limiter of the middleware notes a client's counter
\* only ever increases and is never reset or deleted (it is the number of
\* the client's requests so far), so exactly the first COUNT_LIMIT requests
\* of an IP are admitted and, once one request of an IP has been rejected
\* with 429, every later request of that IP is rejected, however much time
\* passes.
C30_CounterNeverResets == []C30_CountsRequests

\* a client was rejected, and rejected again at a later time
C30_Witness ==
  /\ app = "counter"
  /\ \E c \in Clients : \E i, k \in CountIdx(c) :
       /\ i < k
       /\ ~log[i].ok /\ ~log[k].ok
       /\ log[k].t > log[i].t
       /\ requestCounts[c] = COUNT_LIMIT + 2

====
